---- MODULE Spec2Model ----
(***************************************************************************)
(* Model of searchnets' validated configuration classes                    *)
(* (searchnets/config/classes.py) and of the training-run orchestrator     *)
(* (searchnets/train.py).                                                  *)
(*                                                                         *)
(* Python values are records [t, v]: t is the Python type name, v an       *)
(* integer.  A float holds the numerator of a fraction over PropDen, so    *)
(* PyFloat(PropDen) is 1.0; sums and comparisons of such floats are exact. *)
(***************************************************************************)
EXTENDS Integers, Sequences, FiniteSets, TLC

\* ------------------------------------------------------------------ bounds
PropDen == 2          \* floats are multiples of 1/PropDen
MaxCount == 2         \* largest absolute split size drawn
MaxNets == 2          \* largest number_nets_to_train drawn
MaxLen == 2           \* longest epochs_list drawn

\* ------------------------------------------------------------ Python values
None == [t |-> "NoneType", v |-> 0]
PyInt(n) == [t |-> "int", v |-> n]
PyFloat(k) == [t |-> "float", v |-> k]
PyBool(b) == [t |-> "bool", v |-> IF b THEN 1 ELSE 0]
PyStr == [t |-> "str", v |-> 0]

NoStr == [t |-> "NoneType", s |-> ""]
Str(x) == [t |-> "str", s |-> x]

\* isinstance(value, int): bool is a subclass of int
IsInstanceInt(value) == value.t \in {"int", "bool"}

\* isinstance(value, (int, float))
IsInstanceIntFloat(value) == value.t \in {"int", "bool", "float"}

\* value * PropDen as an integer, for a numeric value
Scaled(value) == IF value.t = "float" THEN value.v ELSE value.v * PropDen

\* the first error of a sequence of validator outcomes, "none" when all pass
RECURSIVE FirstError(_)
FirstError(outcomes) ==
    IF outcomes = << >> THEN "none"
    ELSE IF Head(outcomes) # "none" THEN Head(outcomes)
    ELSE FirstError(Tail(outcomes))

\* ------------------------------------------------------- field validators
instance_of_int_float(value) ==
    IF IsInstanceIntFloat(value) THEN "none" ELSE "TypeError"

instance_of_int(value) ==
    IF IsInstanceInt(value) THEN "none" ELSE "TypeError"

instance_of_bool(value) ==
    IF value.t = "bool" THEN "none" ELSE "TypeError"

is_valid_proportion(value) ==
    IF value.t = "float" /\ (value.v < 0 \/ value.v > PropDen)
    THEN "ValueError" ELSE "none"

is_pos_int(value) ==
    IF value.t # "int" THEN "ValueError"
    ELSE IF value.v < 1 THEN "ValueError"
    ELSE "none"

\* validator=[instance_of((int, float)), is_valid_proportion]
split_size_validator(value) ==
    FirstError(<< instance_of_int_float(value), is_valid_proportion(value) >>)

\* optional([instance_of((int, float)), is_valid_proportion]): None passes
optional_split_size(value) ==
    IF value = None THEN "none" ELSE split_size_validator(value)

\* optional(is_pos_int): None passes
optional_is_pos_int(value) ==
    IF value = None THEN "none" ELSE is_pos_int(value)

check_dataset_type(value) ==
    IF value \notin {"searchstims", "VSD"} THEN "ValueError" ELSE "none"

\* ------------------------------------------------------------- DataConfig
Sizes(a) == << a.train_size, a.val_size, a.test_size >>

AnyFloat(a) == \E i \in 1..3 : Sizes(a)[i].t = "float"

AllFloatOrNone(a) ==
    \A i \in 1..3 : Sizes(a)[i].t = "float" \/ Sizes(a)[i] = None

\* sum([size if size is not None else 0 for size in ...]), times PropDen
size_sum(a) ==
    LET term(x) == IF x = None THEN 0 ELSE Scaled(x)
    IN term(a.train_size) + term(a.val_size) + term(a.test_size)

\* the field validators of DataConfig, in attribute order
DataConfigValidators(a) ==
    FirstError(<< split_size_validator(a.train_size),
                  check_dataset_type(a.dataset_type),
                  optional_split_size(a.val_size),
                  optional_split_size(a.test_size) >>)

PostInitNoSumCheck(a) ==
    IF AnyFloat(a) /\ ~AllFloatOrNone(a) THEN "TypeError" ELSE "none"

PostInitNoMixCheck(a) ==
    IF AnyFloat(a) /\ AllFloatOrNone(a) /\ size_sum(a) > PropDen
    THEN "ValueError" ELSE "none"

\* the checks of __attrs_post_init__
DataConfigPostInit(a) ==
    IF AnyFloat(a)
    THEN IF ~AllFloatOrNone(a) THEN "TypeError"
         ELSE IF size_sum(a) > PropDen THEN "ValueError"
         ELSE "none"
    ELSE "none"

DefaultCsvFileOutWhenFalsy(a) ==
    IF a.csv_file_out.s = "" THEN Str(a.csv_file_in \o "_split.csv")
    ELSE a.csv_file_out

\* the computed default of csv_file_out
DefaultCsvFileOut(a) ==
    IF a.csv_file_out = NoStr THEN Str(a.csv_file_in \o "_split.csv")
    ELSE a.csv_file_out

DataConfigError(a) ==
    FirstError(<< DataConfigValidators(a), DataConfigPostInit(a) >>)

NoDataArgs ==
    [csv_file_in |-> "", train_size |-> None, dataset_type |-> "",
     csv_file_out |-> NoStr, val_size |-> None, test_size |-> None]

SizeValues ==
    {None, PyStr} \cup {PyInt(n) : n \in 1..MaxCount}
                  \cup {PyFloat(k) : k \in (-1)..(PropDen + 1)}

CsvOutValues == {NoStr, Str(""), Str("out.csv")}

DataArgs ==
    [csv_file_in : {"in.csv"}, train_size : SizeValues,
     dataset_type : {"searchstims", "VSD", "imagenet"},
     csv_file_out : CsvOutValues, val_size : SizeValues,
     test_size : SizeValues]

VARIABLES dataArgs, dataConfig, dataErr

dataVars == << dataArgs, dataConfig, dataErr >>

DataInit ==
    /\ dataArgs = NoDataArgs
    /\ dataConfig = [constructed |-> FALSE, fields |-> NoDataArgs]
    /\ dataErr = "none"

\* DataConfig(**a): assign the fields, run the validators, then post-init
DataConfigNew(a) ==
    /\ dataConfig.constructed = FALSE
    /\ dataErr = "none"
    /\ dataArgs' = a
    /\ dataErr' = DataConfigError(a)
    /\ dataConfig' =
         IF DataConfigError(a) = "none"
         THEN [constructed |-> TRUE,
               fields |-> [a EXCEPT !.csv_file_out = DefaultCsvFileOut(a)]]
         ELSE dataConfig

ConstructDataConfig ==
    dataConfig.constructed = FALSE /\ dataErr = "none"
        /\ \E a \in DataArgs : DataConfigNew(a)

\* ------------------------------------------------------------ TrainConfig
\* an epochs_list argument: a list of values, or a value that is no list
PyList(items) == [t |-> "list", v |-> 0, items |-> items]
NotList(value) == [t |-> value.t, v |-> value.v, items |-> << >>]

check_net_name(value) ==
    IF value \notin {"alexnet", "VGG16", "CORnet_Z"} THEN "ValueError"
    ELSE "none"

instance_of_list(value) == IF value.t = "list" THEN "none" ELSE "TypeError"

\* for ind, epochs in enumerate(value): if type(epochs) != int: raise
RECURSIVE check_epochs_list_items(_)
check_epochs_list_items(items) ==
    IF items = << >> THEN "none"
    ELSE IF Head(items).t # "int" THEN "TypeError"
    ELSE check_epochs_list_items(Tail(items))

check_epochs_list(value) ==
    FirstError(<< instance_of_list(value),
                  IF value.t = "list" THEN check_epochs_list_items(value.items)
                  ELSE "none" >>)

check_method(value) ==
    IF value \notin {"initialize", "transfer"} THEN "ValueError" ELSE "none"

check_loss_func(value) ==
    IF value \notin {"CE", "BCE"} THEN "ValueError" ELSE "none"

\* the field validators of TrainConfig, in attribute order; the class has
\* no __attrs_post_init__ and no validator that reads a second field
TrainConfigError(a) ==
    FirstError(<< check_net_name(a.net_name),
                  instance_of_int(a.number_nets_to_train),
                  check_epochs_list(a.epochs_list),
                  instance_of_int(a.random_seed),
                  check_method(a.method),
                  check_loss_func(a.loss_func),
                  instance_of_bool(a.use_val),
                  optional_is_pos_int(a.val_epoch),
                  optional_is_pos_int(a.patience) >>)

NoTrainArgs ==
    [net_name |-> "", number_nets_to_train |-> None,
     epochs_list |-> NotList(None), random_seed |-> None, method |-> "",
     loss_func |-> "", use_val |-> None, val_epoch |-> None,
     patience |-> None]

\* all sequences over S of length at most n
SeqsUpTo(S, n) == UNION {[1..k -> S] : k \in 0..n}

ConfigEpochItems == {PyInt(-1), PyInt(0), PyInt(5), PyStr}

TrainConfigArgs ==
    [net_name : {"alexnet", "resnet"},
     number_nets_to_train :
         {PyInt(n) : n \in (-1)..MaxNets} \cup {PyStr},
     epochs_list :
         {PyList(l) : l \in SeqsUpTo(ConfigEpochItems, MaxLen)}
             \cup {NotList(PyInt(5))},
     random_seed : {PyInt(0), None},
     method : {"transfer", "finetune"},
     loss_func : {"CE", "MSE"},
     use_val : {PyBool(TRUE), PyBool(FALSE), None},
     val_epoch : {None, PyInt(0), PyInt(1), PyFloat(PropDen + 1)},
     patience : {None, PyInt(0), PyInt(2)}]

VARIABLES trainArgs, trainConfig, trainErr

trainConfigVars == << trainArgs, trainConfig, trainErr >>

TrainConfigInit ==
    /\ trainArgs = NoTrainArgs
    /\ trainConfig = [constructed |-> FALSE, fields |-> NoTrainArgs]
    /\ trainErr = "none"

\* TrainConfig(**a): assign the fields, then run the validators
TrainConfigNew(a) ==
    /\ trainConfig.constructed = FALSE
    /\ trainErr = "none"
    /\ trainArgs' = a
    /\ trainErr' = TrainConfigError(a)
    /\ trainConfig' =
         IF TrainConfigError(a) = "none"
         THEN [constructed |-> TRUE, fields |-> a]
         ELSE trainConfig

ConstructTrainConfig ==
    trainConfig.constructed = FALSE /\ trainErr = "none"
        /\ \E a \in TrainConfigArgs : TrainConfigNew(a)

\* ---------------------------------------------------------------- train()
\* bool(value), as `if random_seed:` evaluates it
Truthy(value) == value.t \in {"int", "float", "bool"} /\ value.v # 0

\* value < 1; only called for values that Python can compare with an int
LessThanOne(value) ==
    IF value.t = "float" THEN value.v < PropDen ELSE value.v < 1

\* value < 1 raises TypeError for None and str
Comparable(value) == value.t \in {"int", "float", "bool"}

\* get_transforms(dataset_type, loss_func, pad_size) resolves a pair of
\* transforms for every input
get_transforms_raises(dataset_type, loss_func) == FALSE

\* make_save_path(save_path, net_name, net_number, epochs)
make_save_path(save_path, net_name, net_number, epochs) ==
    save_path \o "/" \o net_name \o "/" \o ToString(net_number)
              \o "/" \o ToString(epochs)

NoArgs ==
    [dataset_type |-> "", net_name |-> "", number_nets_to_train |-> 0,
     epochs_list |-> NotList(None), random_seed |-> None, save_path |-> "",
     method |-> "", loss_func |-> "", use_val |-> FALSE, val_epoch |-> None,
     patience |-> None, save_acc_by_set_size_by_epoch |-> FALSE]

EpochChoices == {PyInt(5), PyInt(10)}

TrainArgs ==
    [dataset_type : {"searchstims", "VSD", "imagenet"},
     net_name : {"alexnet"},
     number_nets_to_train : (-1)..MaxNets,
     epochs_list :
         {PyList(l) : l \in SeqsUpTo(EpochChoices, MaxLen)}
             \cup {NotList(e) : e \in EpochChoices} \cup {NotList(PyStr)},
     random_seed : {None, PyInt(0), PyInt(42)},
     save_path : {"results"},
     method : {"transfer", "initialize", "finetune"},
     loss_func : {"CE", "BCE", "CE-largest", "MSE"},
     use_val : BOOLEAN,
     val_epoch : {None, PyInt(0), PyInt(1), PyFloat(PropDen + 1)},
     patience : {None, PyInt(0), PyInt(2), PyFloat(PropDen + 1)},
     save_acc_by_set_size_by_epoch : BOOLEAN]

NoTrainer ==
    [cls |-> "unbound", save_path |-> "", epochs |-> None,
     apply_sigmoid |-> "unbound"]

Event(op, what, net_number, epochs) ==
    [op |-> op, what |-> what, net_number |-> net_number, epochs |-> epochs]

VARIABLES args, pc, err, epochs_list, seeded, trainset, valset,
          trainset_set_size, apply_sigmoid, ei, net_number,
          save_path_this_net, trainer, log

locals == << epochs_list, seeded, trainset, valset, trainset_set_size,
             apply_sigmoid, ei, net_number, save_path_this_net, trainer >>

trainVars == << args, pc, err, locals, log >>

vars == << dataVars, trainConfigVars, trainVars >>

TrainInit ==
    /\ args = NoArgs
    /\ pc = "idle"
    /\ err = "none"
    /\ epochs_list = << >>
    /\ seeded = FALSE
    /\ trainset = "unbound"
    /\ valset = "unbound"
    /\ trainset_set_size = "unbound"
    /\ apply_sigmoid = "unbound"
    /\ ei = 0
    /\ net_number = 0
    /\ save_path_this_net = ""
    /\ trainer = NoTrainer
    /\ log = << >>

Init == DataInit /\ TrainConfigInit /\ TrainInit

\* an exception leaves train()
Raise(e) == pc' = "raised" /\ err' = e

Goto(label) == pc' = label /\ err' = err

\* train(**a) is called
Call(a) ==
    /\ pc = "idle"
    /\ args' = a
    /\ Goto("check_val_epoch")
    /\ UNCHANGED << locals, log >>

TrainCall == pc = "idle" /\ \E a \in TrainArgs : Call(a)

\* use_val and val_epoch is None or val_epoch < 1 or type(val_epoch) != int
ValEpochCheck(use_val, val_epoch) ==
    IF use_val /\ val_epoch = None THEN "ValueError"
    ELSE IF ~Comparable(val_epoch) THEN "TypeError"
    ELSE IF LessThanOne(val_epoch) THEN "ValueError"
    ELSE IF val_epoch.t # "int" THEN "ValueError"
    ELSE "none"

CheckValEpoch ==
    /\ pc = "check_val_epoch"
    /\ IF ValEpochCheck(args.use_val, args.val_epoch) # "none"
       THEN Raise(ValEpochCheck(args.use_val, args.val_epoch))
       ELSE Goto("check_patience")
    /\ UNCHANGED << args, locals, log >>

\* if use_val is False and patience is not None: raise ValueError
\* if patience is not None:
\*     if type(val_epoch) != int or patience < 1: raise TypeError
PatienceCheck(use_val, val_epoch, patience) ==
    IF use_val = FALSE /\ patience # None THEN "ValueError"
    ELSE IF patience = None THEN "none"
    ELSE IF val_epoch.t # "int" THEN "TypeError"
    ELSE IF ~Comparable(patience) THEN "TypeError"
    ELSE IF LessThanOne(patience) THEN "TypeError"
    ELSE "none"

CheckPatience ==
    /\ pc = "check_patience"
    /\ IF PatienceCheck(args.use_val, args.val_epoch, args.patience) # "none"
       THEN Raise(PatienceCheck(args.use_val, args.val_epoch, args.patience))
       ELSE Goto("normalize_epochs")
    /\ UNCHANGED << args, locals, log >>

NormalizeDropsBareInt(value) ==
    IF value.t = "int" THEN << >> ELSE value.items

\* if type(epochs_list) is int: epochs_list = [epochs_list]
NormalizedEpochsList(value) ==
    IF value.t = "int" THEN << PyInt(value.v) >> ELSE value.items

NormalizeEpochsList ==
    /\ pc = "normalize_epochs"
    /\ IF args.epochs_list.t \in {"int", "list"}
       THEN /\ epochs_list' = NormalizedEpochsList(args.epochs_list)
            /\ Goto("seed")
       ELSE /\ Raise("TypeError")
            /\ UNCHANGED epochs_list
    /\ UNCHANGED << args, seeded, trainset, valset, trainset_set_size,
                    apply_sigmoid, ei, net_number, save_path_this_net,
                    trainer, log >>

\* if random_seed: seed numpy and torch, make cudnn deterministic
SeedRandom ==
    /\ pc = "seed"
    /\ IF Truthy(args.random_seed)
       THEN /\ seeded' = TRUE
            /\ log' = Append(log, Event("seed", "rng", 0, args.random_seed))
       ELSE UNCHANGED << seeded, log >>
    /\ Goto("datasets")
    /\ UNCHANGED << args, epochs_list, trainset, valset, trainset_set_size,
                    apply_sigmoid, ei, net_number, save_path_this_net,
                    trainer >>

\* get_transforms, then the train and validation datasets, built once
SelectDatasets ==
    /\ pc = "datasets"
    /\ IF get_transforms_raises(args.dataset_type, args.loss_func)
       THEN /\ Raise("ValueError")
            /\ UNCHANGED << trainset, valset, log >>
       ELSE IF args.dataset_type \in {"VSD", "searchstims"}
       THEN LET cls == IF args.dataset_type = "VSD" THEN "VOCDetection"
                       ELSE "Searchstims"
                made == << Event("dataset", cls, 0, None) >>
            IN \/ /\ trainset' = cls
                  /\ valset' = IF args.use_val THEN cls ELSE "None"
                  /\ log' = log \o made \o (IF args.use_val THEN made
                                            ELSE << >>)
                  /\ Goto("set_size")
               \/ \* the dataset constructor raises
                  /\ Raise("ResourceError")
                  /\ UNCHANGED << trainset, valset, log >>
       ELSE \* neither branch: trainset and valset stay unbound
            /\ Goto("set_size")
            /\ UNCHANGED << trainset, valset, log >>
    /\ UNCHANGED << args, epochs_list, seeded, trainset_set_size,
                    apply_sigmoid, ei, net_number, save_path_this_net,
                    trainer >>

SetSizeViewAllowsVSD ==
    /\ pc = "set_size"
    /\ trainset_set_size' = "None"
    /\ Goto("loss")
    /\ UNCHANGED << args, epochs_list, seeded, trainset, valset,
                    apply_sigmoid, ei, net_number, save_path_this_net,
                    trainer, log >>

\* if save_acc_by_set_size_by_epoch: VSD raises, searchstims builds the
\* set-size view; else trainset_set_size = None
SetSizeView ==
    /\ pc = "set_size"
    /\ IF args.save_acc_by_set_size_by_epoch
       THEN IF args.dataset_type = "VSD"
            THEN /\ Raise("ValueError")
                 /\ UNCHANGED << trainset_set_size, log >>
            ELSE IF args.dataset_type = "searchstims"
            THEN /\ trainset_set_size' = "Searchstims"
                 /\ log' = Append(log, Event("dataset", "Searchstims", 0, None))
                 /\ Goto("loss")
            ELSE /\ Goto("loss")
                 /\ UNCHANGED << trainset_set_size, log >>
       ELSE /\ trainset_set_size' = "None"
            /\ Goto("loss")
            /\ UNCHANGED log
    /\ UNCHANGED << args, epochs_list, seeded, trainset, valset,
                    apply_sigmoid, ei, net_number, save_path_this_net,
                    trainer >>

\* the apply_sigmoid flag chosen for loss_func, "raise" when none is
ApplySigmoidFor(loss_func) ==
    IF loss_func \in {"CE", "CE-largest", "CE-random"} THEN "False"
    ELSE IF loss_func = "BCE" THEN "True"
    ELSE "raise"

SelectLoss ==
    /\ pc = "loss"
    /\ IF ApplySigmoidFor(args.loss_func) = "raise"
       THEN /\ Raise("ValueError")
            /\ UNCHANGED apply_sigmoid
       ELSE /\ apply_sigmoid' = ApplySigmoidFor(args.loss_func)
            /\ Goto("loop")
    /\ UNCHANGED << args, epochs_list, seeded, trainset, valset,
                    trainset_set_size, ei, net_number, save_path_this_net,
                    trainer, log >>

JobAfterReplicateOuter(e, k, n, len) ==
    IF n < 1 \/ len < 1 THEN << 0, 0 >>
    ELSE IF e = 0 THEN << 1, 1 >>
    ELSE IF e < len THEN << e + 1, k >>
    ELSE IF k < n THEN << 1, k + 1 >>
    ELSE << 0, 0 >>

\* for epochs in epochs_list: for net_number in range(1, n + 1):
\* the (index into epochs_list, net_number) that follows (e, k), where
\* (0, 0) is both "before the first" and "exhausted"
JobAfter(e, k, n, len) ==
    IF n < 1 THEN << 0, 0 >>
    ELSE IF e >= 1 /\ k < n THEN << e, k + 1 >>
    ELSE IF e < len THEN << e + 1, 1 >>
    ELSE << 0, 0 >>

NextOfLoop ==
    JobAfter(ei, net_number, args.number_nets_to_train, Len(epochs_list))

\* the loops advance to the next job
NextJob ==
    /\ pc = "loop"
    /\ NextOfLoop # << 0, 0 >>
    /\ ei' = NextOfLoop[1]
    /\ net_number' = NextOfLoop[2]
    /\ Goto("make_save_path")
    /\ UNCHANGED << args, epochs_list, seeded, trainset, valset,
                    trainset_set_size, apply_sigmoid, save_path_this_net,
                    trainer, log >>

\* both loops are exhausted: train() returns None
Return ==
    /\ pc = "loop"
    /\ NextOfLoop = << 0, 0 >>
    /\ Goto("returned")
    /\ UNCHANGED << args, locals, log >>

epochs == epochs_list[ei]

MakeSavePath ==
    /\ pc = "make_save_path"
    /\ save_path_this_net' =
         make_save_path(args.save_path, args.net_name, net_number, epochs.v)
    /\ log' = Append(log, Event("make_save_path", args.save_path \o "," \o
                                args.net_name, net_number, epochs))
    /\ Goto("construct")
    /\ UNCHANGED << args, epochs_list, seeded, trainset, valset,
                    trainset_set_size, apply_sigmoid, ei, net_number,
                    trainer >>

\* the Training Strategy selected by method; no branch for other values
ConstructTrainer ==
    /\ pc = "construct"
    /\ IF args.method \in {"transfer", "initialize"}
       THEN LET cls == IF args.method = "transfer" THEN "TransferTrainer"
                       ELSE "Trainer"
            IN IF trainset = "unbound" \/ valset = "unbound"
                  \/ trainset_set_size = "unbound"
               THEN /\ Raise("UnboundLocalError")
                    /\ UNCHANGED << trainer, log >>
               ELSE \/ /\ trainer' = [cls |-> cls,
                                      save_path |-> save_path_this_net,
                                      epochs |-> epochs,
                                      apply_sigmoid |-> apply_sigmoid]
                       /\ log' = Append(log, Event("from_config", cls,
                                                   net_number, epochs))
                       /\ Goto("train")
                    \/ \* from_config raises
                       /\ Raise("TrainingError")
                       /\ UNCHANGED << trainer, log >>
       ELSE /\ Goto("train")
            /\ UNCHANGED << trainer, log >>
    /\ UNCHANGED << args, epochs_list, seeded, trainset, valset,
                    trainset_set_size, apply_sigmoid, ei, net_number,
                    save_path_this_net >>

TrainerTrainCatchesAndContinues ==
    /\ pc = "train"
    /\ IF trainer.cls = "unbound"
       THEN /\ Raise("UnboundLocalError")
            /\ UNCHANGED log
       ELSE \/ /\ log' = Append(log, Event("train", trainer.save_path,
                                           net_number, epochs))
               /\ Goto("loop")
            \/ /\ pc' = "loop"
               /\ err' = "TrainingError"
               /\ UNCHANGED log
    /\ UNCHANGED << args, locals >>

\* trainer.train() runs the job to completion, or raises
TrainerTrain ==
    /\ pc = "train"
    /\ IF trainer.cls = "unbound"
       THEN /\ Raise("UnboundLocalError")
            /\ UNCHANGED log
       ELSE \/ /\ log' = Append(log, Event("train", trainer.save_path,
                                           net_number, epochs))
               /\ Goto("loop")
            \/ /\ Raise("TrainingError")
               /\ UNCHANGED log
    /\ UNCHANGED << args, locals >>

\* ------------------------------------------------------- specifications
\* train() leaves the configuration objects alone
configVars == << dataVars, trainConfigVars >>

Next ==
    \/ TrainCall /\ UNCHANGED configVars
    \/ CheckValEpoch /\ UNCHANGED configVars
    \/ CheckPatience /\ UNCHANGED configVars
    \/ NormalizeEpochsList /\ UNCHANGED configVars
    \/ SeedRandom /\ UNCHANGED configVars
    \/ SelectDatasets /\ UNCHANGED configVars
    \/ SetSizeView /\ UNCHANGED configVars
    \/ SelectLoss /\ UNCHANGED configVars
    \/ NextJob /\ UNCHANGED configVars
    \/ Return /\ UNCHANGED configVars
    \/ MakeSavePath /\ UNCHANGED configVars
    \/ ConstructTrainer /\ UNCHANGED configVars
    \/ TrainerTrain /\ UNCHANGED configVars

Spec == Init /\ [][Next]_vars

DataNext == ConstructDataConfig /\ UNCHANGED << trainConfigVars, trainVars >>

DataSpec == Init /\ [][DataNext]_vars

TrainConfigNext ==
    ConstructTrainConfig /\ UNCHANGED << dataVars, trainVars >>

TrainConfigSpec == Init /\ [][TrainConfigNext]_vars

\* ================================================================ claims
DataAttempted == dataConfig.constructed \/ dataErr # "none"

TrainConfigAttempted == trainConfig.constructed \/ trainErr # "none"

\* the sum of the sizes given as proportions, times PropDen
ProportionSum(a) ==
    LET term(x) == IF x.t = "float" THEN x.v ELSE 0
    IN term(a.train_size) + term(a.val_size) + term(a.test_size)

\* C1: a DataConfig with a proportion among its split sizes and a sum of
\* proportions above 1 is never constructed; a constructed one that has a
\* proportion has a sum of at most 1.
C1_ProportionSumAtMostOne ==
    /\ (DataAttempted /\ AnyFloat(dataArgs)
            /\ ProportionSum(dataArgs) > PropDen)
         => (dataErr # "none" /\ ~dataConfig.constructed)
    /\ (dataConfig.constructed /\ AnyFloat(dataConfig.fields))
         => ProportionSum(dataConfig.fields) <= PropDen

\* three proportions, each within [0, 1], that sum to more than 1
C1_Witness ==
    /\ dataErr = "ValueError"
    /\ dataArgs.dataset_type = "searchstims"
    /\ \A i \in 1..3 : /\ Sizes(dataArgs)[i].t = "float"
                       /\ Sizes(dataArgs)[i].v \in 0..PropDen
    /\ ProportionSum(dataArgs) > PropDen

\* C2: a DataConfig whose supplied split sizes hold both a proportion and
\* an absolute count is never constructed, whichever fields they are.
C2_MixedSizesFail ==
    (DataAttempted /\ (\E i \in 1..3 : Sizes(dataArgs)[i].t = "float")
                   /\ (\E i \in 1..3 : Sizes(dataArgs)[i].t = "int"))
        => (dataErr # "none" /\ ~dataConfig.constructed)

\* an absolute train_size, no val_size and a valid proportion as test_size
C2_Witness ==
    /\ dataErr = "TypeError"
    /\ dataArgs.dataset_type = "VSD"
    /\ dataArgs.train_size = PyInt(1)
    /\ dataArgs.val_size = None
    /\ dataArgs.test_size = PyFloat(1)

IsPosInt(value) == value.t = "int" /\ value.v >= 1

\* every field other than use_val, val_epoch and patience is valid
OtherTrainFieldsValid(a) ==
    TrainConfigError([a EXCEPT !.use_val = PyBool(FALSE), !.val_epoch = None,
                               !.patience = None]) = "none"

\* C3: a TrainConfig with patience set and use_val = false is never
\* constructed, and one with patience set, use_val = true and a positive
\* integer val_epoch is constructed when its other fields are valid.
C3_PatienceRequiresUseVal ==
    /\ (TrainConfigAttempted /\ trainArgs.patience # None
            /\ trainArgs.use_val = PyBool(FALSE))
         => trainErr # "none"
    /\ (TrainConfigAttempted /\ IsPosInt(trainArgs.patience)
            /\ trainArgs.use_val = PyBool(TRUE)
            /\ IsPosInt(trainArgs.val_epoch)
            /\ OtherTrainFieldsValid(trainArgs))
         => trainConfig.constructed

\* C4: a TrainConfig with use_val = true is constructed only when
\* val_epoch is a positive integer.
C4_UseValRequiresValEpoch ==
    (TrainConfigAttempted /\ trainArgs.use_val = PyBool(TRUE)
        /\ ~IsPosInt(trainArgs.val_epoch))
      => (trainErr # "none" /\ ~trainConfig.constructed)

\* C5: every constructed TrainConfig has number_nets_to_train >= 1 and
\* every epoch budget >= 1.
C5_PositiveGrid ==
    trainConfig.constructed =>
        /\ trainConfig.fields.number_nets_to_train.v >= 1
        /\ \A i \in 1..Len(trainConfig.fields.epochs_list.items) :
               trainConfig.fields.epochs_list.items[i].v >= 1

\* the events of the job loop, in the order they happened
JobLog ==
    SelectSeq(log, LAMBDA e :
                  e.op \in {"make_save_path", "from_config", "train"})

EventsOf(op) == SelectSeq(log, LAMBDA e : e.op = op)

NoJobStarted ==
    /\ JobLog = << >>
    /\ save_path_this_net = ""
    /\ trainer = NoTrainer
    /\ pc \notin {"make_save_path", "construct", "train"}

\* C6: BCE yields apply_sigmoid = true, CE yields apply_sigmoid = false,
\* and with any other loss_func train() starts no job and does not return.
C6_LossFuncSelectsSigmoid ==
    /\ (apply_sigmoid # "unbound" /\ args.loss_func = "BCE")
         => apply_sigmoid = "True"
    /\ (apply_sigmoid # "unbound" /\ args.loss_func = "CE")
         => apply_sigmoid = "False"
    /\ (pc # "idle" /\ args.loss_func \notin {"CE", "BCE"})
         => (NoJobStarted /\ apply_sigmoid = "unbound"
                /\ pc \notin {"loop", "returned"})

AfterNormalize ==
    pc \in {"seed", "datasets", "set_size", "loss", "loop", "make_save_path",
            "construct", "train", "returned"}

\* the number of jobs of the grid epochs_list x [1..number_nets_to_train]
GridSize == Len(epochs_list) * Cardinality(1..args.number_nets_to_train)

\* C7: a bare integer epochs_list becomes a one-element list before the job
\* loop, a value that is neither int nor list is rejected, and a run that
\* returns has constructed and trained one job per pair of the grid
\* epochs_list x [1..number_nets_to_train], that is
\* len(epochs_list) * number_nets_to_train jobs.
C7_JobCount ==
    /\ (AfterNormalize /\ args.epochs_list.t = "int")
         => epochs_list = << PyInt(args.epochs_list.v) >>
    /\ (pc # "idle" /\ args.epochs_list.t \notin {"int", "list"})
         => ~AfterNormalize
    /\ pc = "returned" =>
         /\ Len(EventsOf("make_save_path")) = GridSize
         /\ Len(EventsOf("from_config")) = GridSize
         /\ Len(EventsOf("train")) = GridSize

\* epochs_list = 5 with 2 replicates returned after training 2 jobs
C7_Witness ==
    /\ pc = "returned"
    /\ args.epochs_list = NotList(PyInt(5))
    /\ args.number_nets_to_train = 2
    /\ epochs_list = << PyInt(5) >>
    /\ Len(EventsOf("train")) = 2

\* the j-th job of the grid, epoch budget outer and replicate inner
GridEpochs(j) == epochs_list[((j - 1) \div args.number_nets_to_train) + 1]
GridNetNumber(j) == ((j - 1) % args.number_nets_to_train) + 1

\* C8: the calls of make_save_path are a prefix of the grid in the order
\* epoch budget outer, replicate 1..number_nets_to_train inner, the whole
\* grid when train() returns; a save path is computed only after the
\* previous job's train() completed; the sequence is a function of the
\* arguments alone.
C8_JobOrder ==
    LET calls == EventsOf("make_save_path")
    IN /\ Len(calls) <= GridSize
       /\ \A j \in 1..Len(calls) :
              /\ calls[j].net_number = GridNetNumber(j)
              /\ calls[j].epochs = GridEpochs(j)
              /\ calls[j].what = args.save_path \o "," \o args.net_name
       /\ \A p \in 1..Len(JobLog) :
              /\ (JobLog[p].op = "make_save_path" /\ p > 1)
                    => JobLog[p - 1].op = "train"
              /\ JobLog[p].op = "train" =>
                    /\ p > 2
                    /\ JobLog[p - 1].op = "from_config"
                    /\ JobLog[p - 2].op = "make_save_path"
                    /\ JobLog[p - 2].net_number = JobLog[p].net_number
                    /\ JobLog[p - 2].epochs = JobLog[p].epochs
       /\ pc = "returned" => Len(calls) = GridSize

\* epochs_list = [5, 10] with 2 replicates ran (1,5), (2,5), (1,10), (2,10)
C8_Witness ==
    /\ pc = "returned"
    /\ args.epochs_list = PyList(<< PyInt(5), PyInt(10) >>)
    /\ args.number_nets_to_train = 2
    /\ Len(EventsOf("train")) = 4
    /\ EventsOf("make_save_path")[2].net_number = 2
    /\ EventsOf("make_save_path")[2].epochs = PyInt(5)
    /\ EventsOf("make_save_path")[3].net_number = 1
    /\ EventsOf("make_save_path")[3].epochs = PyInt(10)
    /\ save_path_this_net = "results/alexnet/2/10"

\* C9: with save_acc_by_set_size_by_epoch = true and dataset_type = VSD,
\* train() starts no job, never reaches the loss selection and never
\* returns: it can only end by raising.
C9_SetSizeWithVSDFails ==
    (pc # "idle" /\ args.save_acc_by_set_size_by_epoch
        /\ args.dataset_type = "VSD")
      => (NoJobStarted /\ pc \notin {"loss", "loop", "returned"})

\* the VSD datasets were built and the set-size check then raised
C9_Witness ==
    /\ pc = "raised"
    /\ err = "ValueError"
    /\ args.save_acc_by_set_size_by_epoch
    /\ args.dataset_type = "VSD"
    /\ trainset = "VOCDetection"

\* val_epoch is required to be a positive integer only when use_val is true
ValEpochOnlyWhenUseVal(use_val, val_epoch) ==
    IF use_val /\ ~IsPosInt(val_epoch) THEN "ValueError" ELSE "none"

\* C10: the val_epoch check of train() raises exactly when use_val is true
\* and val_epoch is None, not an int or below 1; with use_val = false it
\* never raises.
C10_ValEpochOnlyWhenUseVal ==
    [][pc = "check_val_epoch" =>
          ((pc' = "raised")
              <=> (ValEpochOnlyWhenUseVal(args.use_val, args.val_epoch)
                      # "none"))]_vars

\* C11: within one invocation of train() no two jobs are given the same
\* (save_path, net_name, net_number, epochs) arguments to make_save_path.
C11_SavePathArgsDistinct ==
    LET calls == EventsOf("make_save_path")
    IN \A i, j \in 1..Len(calls) : calls[i] = calls[j] => i = j

\* C12: with a dataset_type outside {searchstims, VSD} or a method outside
\* {initialize, transfer}, train() computes no save path, constructs no
\* Training Strategy and never returns normally, whatever the grid.
C12_UnknownSelectorFailsFast ==
    (pc # "idle" /\ (args.dataset_type \notin {"searchstims", "VSD"}
                        \/ args.method \notin {"initialize", "transfer"}))
      => (NoJobStarted /\ pc # "returned")

\* C13: a constructed DataConfig has csv_file_out = csv_file_in +
\* '_split.csv' when csv_file_out was not supplied and the supplied value
\* otherwise, and every other field holds its constructor argument.
C13_CsvFileOutDefault ==
    dataConfig.constructed =>
        /\ dataArgs.csv_file_out = NoStr =>
              dataConfig.fields.csv_file_out
                  = [t |-> "str", s |-> dataArgs.csv_file_in \o "_split.csv"]
        /\ dataArgs.csv_file_out # NoStr =>
              dataConfig.fields.csv_file_out = dataArgs.csv_file_out
        /\ dataConfig.fields.csv_file_in = dataArgs.csv_file_in
        /\ dataConfig.fields.train_size = dataArgs.train_size
        /\ dataConfig.fields.val_size = dataArgs.val_size
        /\ dataConfig.fields.test_size = dataArgs.test_size
        /\ dataConfig.fields.dataset_type = dataArgs.dataset_type

\* csv_file_out was left unset and became in.csv_split.csv
C13_Witness ==
    /\ dataConfig.constructed
    /\ dataArgs.csv_file_in = "in.csv"
    /\ dataArgs.csv_file_out = NoStr
    /\ dataConfig.fields.csv_file_out = [t |-> "str", s |-> "in.csv_split.csv"]

AfterSeed ==
    pc \in {"datasets", "set_size", "loss", "loop", "make_save_path",
            "construct", "train", "returned"}

\* C14: whenever a random_seed is given, 0 included, the generators are
\* seeded before any dataset is constructed or any job starts; seeding is
\* skipped only when random_seed is None.
C14_SeedWheneverGiven ==
    /\ ((AfterSeed \/ log # << >>) /\ args.random_seed # None)
         => (seeded /\ log # << >> /\ log[1].op = "seed")
    /\ args.random_seed = None => ~seeded

\* once an error was raised, every job that was started before the failing
\* one has been trained: k save paths computed means k - 1 jobs trained
EarlierJobsCompleted ==
    LET k == Len(EventsOf("make_save_path"))
    IN k > 0 => /\ Len(EventsOf("train")) = k - 1
                /\ Len(EventsOf("from_config")) \in {k - 1, k}

\* C15: an error raised while constructing or training a job leaves
\* train() at once: the jobs before it have run to completion and, from
\* then on, no save path is computed, no Training Strategy constructed and
\* no train() invoked.
C15_FailStop ==
    /\ [](err # "none" => (pc = "raised" /\ EarlierJobsCompleted))
    /\ [][pc = "raised" => UNCHANGED vars]_vars

\* the second job of a grid of at least three raised while training
C15_Witness ==
    /\ pc = "raised"
    /\ err = "TrainingError"
    /\ Len(EventsOf("make_save_path")) = 2
    /\ Len(EventsOf("from_config")) = 2
    /\ Len(EventsOf("train")) = 1
    /\ GridSize >= 3

\* C16: a supplied patience is accepted only with use_val = true and a
\* positive integer value: otherwise train() raises at its precondition
\* checks, before seeding, any dataset and any job.
C16_PatienceAccepted ==
    (pc # "idle" /\ args.patience # None
        /\ (~args.use_val \/ ~IsPosInt(args.patience)))
      => /\ pc \in {"check_val_epoch", "check_patience", "raised"}
         /\ log = << >>
         /\ trainset = "unbound"

====
